---- MODULE Spec2Model ----
(***************************************************************************)
(* A model of citrus (src/citrus/core.py, src/citrus/errors.py): the name  *)
(* registry NameMapping, the Problem context with its synthesis counter,   *)
(* Variable / AffineExpression arithmetic and the constraint synthesis     *)
(* functions.  Python strings are TLA+ strings, dictionaries are functions *)
(* whose DOMAIN is the key set, objects live in the sequence heap and are  *)
(* identified by their index (Python identity).                            *)
(***************************************************************************)
EXTENDS Integers, Sequences, FiniteSets, TLC

VARIABLES synth_var_ix, name_mapping, constraints, variables, heap, acc, last

vars == <<synth_var_ix, name_mapping, constraints, variables, heap, acc, last>>
ctx == <<synth_var_ix, name_mapping, constraints, variables>>

(***************************************************************************)
(* Bounds of the model.                                                    *)
(***************************************************************************)
MaxVars == 3        \* Variable objects ever constructed
MaxTag == 2         \* values the synthesis counter may take before calls stop
Denominator == 2    \* values of variables are multiples of 1/Denominator
MaxAbs == 1         \* operand values range over -MaxAbs..MaxAbs (in units)
MaxCoef == 1        \* largest coefficient / constant kept in the accumulator

Problems == {1, 2}                      \* two Problem objects: a and b
NoneName == "<None>"                    \* Python None used as a long name
VarPrefix == "x_"                       \* core.py:16 default prefix
ConPrefix == "constraint_"              \* core.py:61
Prefixes == {VarPrefix, ConPrefix}

(***************************************************************************)
(* Dictionaries.                                                           *)
(***************************************************************************)
EmptyDict == [k \in {} |-> ""]
Put(d, k, v) == [q \in (DOMAIN d) \cup {k} |-> IF q = k THEN v ELSE d[q]]
Del(d, k) == [q \in (DOMAIN d) \ {k} |-> d[q]]
Range(d) == {d[k] : k \in DOMAIN d}

(***************************************************************************)
(* NameMapping (core.py:8-33).                                             *)
(***************************************************************************)
\* repr() of a long name: a str is quoted, None prints as None
Repr(long_name) == IF long_name = NoneName THEN "None" ELSE "'" \o long_name \o "'"

\* hashlib.sha1(...).hexdigest(): a collision-free digest, kept symbolic
Sha1Hex(text) == "#" \o text

NameMapping_init == [long_to_short |-> EmptyDict, short_to_long |-> EmptyDict]

\* core.py:24-26
add(nm, long, short) ==
    [long_to_short |-> Put(nm.long_to_short, long, short),
     short_to_long |-> Put(nm.short_to_long, short, long)]

\* core.py:16-23; returns the registry, the short name and whether it warned
create_short_name(nm, long_name, prefix) ==
    IF long_name \notin DOMAIN nm.long_to_short
    THEN LET short_name == prefix \o Sha1Hex(Repr(long_name))
         IN  [nm |-> add(nm, long_name, short_name), short |-> short_name, warned |-> FALSE]
    ELSE [nm |-> nm, short |-> nm.long_to_short[long_name], warned |-> TRUE]

\* a remove that forgets the long -> short direction
remove_one_sided(nm, short) ==
    IF short \in DOMAIN nm.short_to_long /\ nm.short_to_long[short] # NoneName
    THEN [long_to_short |-> nm.long_to_short,
          short_to_long |-> Del(nm.short_to_long, short)]
    ELSE nm

\* core.py:27-31
remove(nm, short) ==
    IF short \in DOMAIN nm.short_to_long /\ nm.short_to_long[short] # NoneName
    THEN [long_to_short |-> Del(nm.long_to_short, nm.short_to_long[short]),
          short_to_long |-> Del(nm.short_to_long, short)]
    ELSE nm

\* core.py:12-13: looks its argument up in _short_to_long
get_short_name(nm, var) ==
    IF var \in DOMAIN nm.short_to_long
    THEN [status |-> "ok", rets |-> nm.short_to_long[var]]
    ELSE [status |-> "KeyError", rets |-> ""]

\* core.py:14-15: looks its argument up in _long_to_short
get_long_name(nm, name) ==
    IF name \in DOMAIN nm.long_to_short
    THEN [status |-> "ok", rets |-> nm.long_to_short[name]]
    ELSE [status |-> "KeyError", rets |-> ""]

(***************************************************************************)
(* The record of the last call: which operation, on what, and how it ended *)
(***************************************************************************)
NoExpr == [problem |-> 0, terms |-> [k \in {} |-> 0], constant |-> 0]

NoCall == [op |-> "none", p |-> 0, args |-> <<>>, key |-> "", prefix |-> "",
           status |-> "ok", ret |-> 0, rets |-> "", warned |-> FALSE,
           cons |-> {}, e |-> NoExpr]

Init ==
    /\ synth_var_ix = [p \in Problems |-> 0]
    /\ name_mapping = [p \in Problems |-> NameMapping_init]
    /\ constraints = [p \in Problems |-> EmptyDict]
    /\ variables = [p \in Problems |-> {}]
    /\ heap = <<>>
    /\ acc = NoExpr
    /\ last = NoCall

(***************************************************************************)
(* pulp objects as citrus uses them.  Optional numbers: <<>> is None and   *)
(* <<n>> is the number n.                                                  *)
(***************************************************************************)
Cats == {"Binary", "Integer", "Continuous"}

\* pulp.LpVariable.__init__ reached from core.py:90: LpBinary is stored as an
\* integer variable with bounds 0 and 1.  def is the call that made the object,
\* held whether the caller has a reference to it (the call returned it).
LpVariable(p, long_name, short, cat, def) ==
    [problem |-> p, long_name |-> long_name, name |-> short,
     cat |-> IF cat = "Binary" THEN "Integer" ELSE cat,
     lowBound |-> IF cat = "Binary" THEN <<0>> ELSE <<>>,
     upBound |-> IF cat = "Binary" THEN <<1>> ELSE <<>>,
     varValue |-> <<>>, def |-> def, held |-> TRUE]

isBinary(var) == var.cat = "Integer" /\ var.lowBound = <<0>> /\ var.upBound = <<1>>
isConstant(var) == var.lowBound # <<>> /\ var.upBound = var.lowBound
value(var) == var.varValue

\* errors.py:12-15
assert_binary(var) ==
    IF isBinary(var) THEN "ok"
    ELSE IF isConstant(var) /\ (value(var) = <<1>> \/ value(var) = <<0>>) THEN "ok"
    ELSE "NonBinaryVariableError"

\* errors.py:17-20: a function of two positional parameters x and y; args is
\* the tuple of positional arguments of the call.
assert_same_problem(h, args) ==
    IF Len(args) # 2 THEN "TypeError"
    ELSE IF h[args[1]].problem # h[args[2]].problem THEN "CitrusError"
    ELSE "ok"

(***************************************************************************)
(* Affine expressions: a dictionary Variable -> coefficient, a constant    *)
(* and the Problem reference (0: a plain number, no reference).            *)
(***************************************************************************)
NoTerms == [k \in {} |-> 0]
Coef(t, v) == IF v \in DOMAIN t THEN t[v] ELSE 0
addterms(t, u, sign) == [v \in (DOMAIN t) \cup (DOMAIN u) |-> Coef(t, v) + sign * Coef(u, v)]

Num(k) == [problem |-> 0, terms |-> NoTerms, constant |-> k]

\* core.py:65-73 with args[0] a Variable: the reference is args[0]._problem
AffineExpression(h, v) == [problem |-> h[v].problem, terms |-> (v :> 1), constant |-> 0]

\* LpAffineExpression.__add__ / __sub__: self.copy() (core.py:78-79) then
\* addInPlace / subInPlace of the other operand; the copy keeps self._problem
ExprAdd(e, o) ==
    [problem |-> e.problem, terms |-> addterms(e.terms, o.terms, 1),
     constant |-> e.constant + o.constant]
ExprSub(e, o) ==
    [problem |-> e.problem, terms |-> addterms(e.terms, o.terms, -1),
     constant |-> e.constant - o.constant]
\* LpAffineExpression.__neg__ on self.emptyCopy() (core.py:81-82)
ExprNeg(e) ==
    [problem |-> e.problem, terms |-> [v \in DOMAIN e.terms |-> -e.terms[v]],
     constant |-> -e.constant]
\* LpAffineExpression.__mul__ by a number on self.emptyCopy() (core.py:81-82)
ExprMul(e, k) ==
    IF k = 0 THEN [problem |-> e.problem, terms |-> NoTerms, constant |-> 0]
    ELSE [problem |-> e.problem, terms |-> [v \in DOMAIN e.terms |-> k * e.terms[v]],
          constant |-> k * e.constant]

Var_neg(h, v) == ExprNeg(AffineExpression(h, v))            \* core.py:105-106
Var_add(h, v, o) == ExprAdd(AffineExpression(h, v), o)      \* core.py:108-112
Var_sub(h, v, o) == ExprSub(AffineExpression(h, v), o)      \* core.py:114-115
\* core.py:117-118 with a number on the left: (-self).addInPlace(other)
Var_rsub(h, v, o) == ExprAdd(ExprNeg(AffineExpression(h, v)), o)
Var_mul(h, v, k) == ExprMul(AffineExpression(h, v), k)      \* core.py:120-124

\* pulp.lpSum over a list of Variables
RECURSIVE lpSum(_, _)
lpSum(h, xs) ==
    IF xs = <<>> THEN Num(0)
    ELSE ExprAdd(lpSum(h, SubSeq(xs, 1, Len(xs) - 1)), AffineExpression(h, xs[Len(xs)]))

\* comparison operators build LpConstraint(lhs - rhs, sense): terms + constant sense 0
LpConstraintLE == -1
LpConstraintEQ == 0
LpConstraintGE == 1
LpConstraint(l, r, sense) ==
    [terms |-> addterms(l.terms, r.terms, -1), constant |-> l.constant - r.constant,
     sense |-> sense, origin |-> ""]
LE(l, r) == LpConstraint(l, r, LpConstraintLE)
GE(l, r) == LpConstraint(l, r, LpConstraintGE)
EQ(l, r) == LpConstraint(l, r, LpConstraintEQ)

(***************************************************************************)
(* Problem (core.py:38-62).  A call threads the record S through its       *)
(* statements; once S.status is an exception the remaining statements are  *)
(* skipped and what was already written stays written.                     *)
(***************************************************************************)
Start ==
    [synth_var_ix |-> synth_var_ix, name_mapping |-> name_mapping,
     constraints |-> constraints, variables |-> variables, heap |-> heap,
     status |-> "ok", tag |-> "", ret |-> 0, cons |-> {}, warned |-> FALSE, p |-> 0]

Raise(S, exc) == [S EXCEPT !.status = exc, !.ret = 0]

\* core.py:47-50; the returned name is left in S.tag
synth_var(S, p) ==
    [S EXCEPT !.tag = ToString(S.synth_var_ix[p]), !.synth_var_ix[p] = @ + 1]

\* core.py:44-45 and Variable.__init__ core.py:86-90; the new object is S.ret
make_var(S, p, long_name, cat, def) ==
    IF S.status # "ok" THEN S
    ELSE LET r == create_short_name(S.name_mapping[p], long_name, VarPrefix)
         IN  [S EXCEPT !.name_mapping[p] = r.nm,
                       !.heap = Append(@, LpVariable(p, long_name, r.short, cat, def)),
                       !.ret = Len(S.heap) + 1,
                       !.warned = @ \/ r.warned, !.p = p]

\* pulp.LpProblem.addConstraint reached from core.py:62: a name already in
\* self.constraints raises PulpError (noOverlap), else the constraint is
\* stored and its variables are added to the problem
LpProblem_addConstraint(S, p, constraint, short) ==
    IF short \in DOMAIN S.constraints[p] THEN Raise(S, "PulpError")
    ELSE [S EXCEPT !.constraints[p] = Put(@, short, constraint),
                   !.variables[p] = @ \cup DOMAIN constraint.terms,
                   !.cons = @ \cup {short}]

\* core.py:58-62; name = NoneName is name=None
addConstraint(S, p, constraint, name, origin) ==
    IF S.status # "ok" THEN S
    ELSE LET S1 == IF name = NoneName THEN synth_var(S, p) ELSE S
             nm == IF name = NoneName THEN S1.tag ELSE name
             r == create_short_name(S1.name_mapping[p], nm, ConPrefix)
             S2 == [S1 EXCEPT !.name_mapping[p] = r.nm, !.warned = @ \/ r.warned, !.p = p]
         IN  LpProblem_addConstraint(S2, p, [constraint EXCEPT !.origin = origin], r.short)

(***************************************************************************)
(* Synthesis functions (core.py:129-250).                                  *)
(***************************************************************************)
Made(op, args) == [op |-> op, args |-> args]

\* an abs_value whose second constraint is written z <= var instead of -z <= var
abs_value_wrong_side(S, opnd) ==
    LET problem == opnd.e.problem
        S1 == synth_var(S, problem)
        tag == S1.tag
        S2 == make_var(S1, problem, "abs(" \o opnd.name \o ")_" \o tag, "Integer",
                       Made("abs_value", <<>>))
        z == S2.ret
        S3 == addConstraint(S2, problem, LE(opnd.e, AffineExpression(S2.heap, z)),
                            "abs_support_1_" \o tag, "abs_value")
        S4 == addConstraint(S3, problem, LE(AffineExpression(S2.heap, z), opnd.e),
                            "abs_support_2_" \o tag, "abs_value")
    IN  [S4 EXCEPT !.ret = IF S4.status = "ok" THEN z ELSE 0]

\* core.py:129-135; the operand is a Variable or an AffineExpression:
\* opnd.name is var.name and opnd.e the operand as it enters the comparisons
abs_value(S, opnd) ==
    LET problem == opnd.e.problem
        S1 == synth_var(S, problem)
        tag == S1.tag
        S2 == make_var(S1, problem, "abs(" \o opnd.name \o ")_" \o tag, "Integer",
                       Made("abs_value", <<>>))
        z == S2.ret
        S3 == addConstraint(S2, problem, LE(opnd.e, AffineExpression(S2.heap, z)),
                            "abs_support_1_" \o tag, "abs_value")
        S4 == addConstraint(S3, problem, LE(Var_neg(S2.heap, z), opnd.e),
                            "abs_support_2_" \o tag, "abs_value")
    IN  [S4 EXCEPT !.ret = IF S4.status = "ok" THEN z ELSE 0]

\* a negate whose constraint is y == x - 1 instead of y == 1 - x
negate_swapped(S, x) ==
    IF assert_binary(S.heap[x]) # "ok" THEN Raise(S, assert_binary(S.heap[x]))
    ELSE LET problem == S.heap[x].problem
             S1 == synth_var(S, problem)
             tag == S1.tag
             S2 == make_var(S1, problem, "(NOT " \o S.heap[x].name \o ")_" \o tag, "Binary",
                            Made("negate", <<x>>))
             y == S2.ret
             S3 == addConstraint(S2, problem,
                                 EQ(AffineExpression(S2.heap, y), Var_sub(S2.heap, x, Num(1))),
                                 "negate_support_" \o tag, "negate")
         IN  [S3 EXCEPT !.ret = IF S3.status = "ok" THEN y ELSE 0]

\* core.py:146-152
negate(S, x) ==
    IF assert_binary(S.heap[x]) # "ok" THEN Raise(S, assert_binary(S.heap[x]))
    ELSE LET problem == S.heap[x].problem
             S1 == synth_var(S, problem)
             tag == S1.tag
             S2 == make_var(S1, problem, "(NOT " \o S.heap[x].name \o ")_" \o tag, "Binary",
                            Made("negate", <<x>>))
             y == S2.ret
             S3 == addConstraint(S2, problem,
                                 EQ(AffineExpression(S2.heap, y), Var_rsub(S2.heap, x, Num(1))),
                                 "negate_support_" \o tag, "negate")
         IN  [S3 EXCEPT !.ret = IF S3.status = "ok" THEN y ELSE 0]

\* '_AND_'.join(x.name for x in xs)
RECURSIVE join(_, _, _)
join(h, xs, sep) ==
    IF Len(xs) = 1 THEN h[xs[1]].name
    ELSE join(h, SubSeq(xs, 1, Len(xs) - 1), sep) \o sep \o h[xs[Len(xs)]].name

\* the loops "for ix, x in enumerate(xs): model.addConstraint(...)" of
\* core.py:174-175, 193-194, 236-237 and 248-249, from index ix on
RECURSIVE support_loop(_, _, _, _, _, _, _)
support_loop(S, model, z, xs, ix, op, tag) ==
    IF ix >= Len(xs) THEN S
    ELSE LET x == xs[ix + 1]
             zx == IF op \in {"logical_and", "min"}
                   THEN LE(AffineExpression(S.heap, z), AffineExpression(S.heap, x))
                   ELSE GE(AffineExpression(S.heap, z), AffineExpression(S.heap, x))
             nm == op \o "_support_" \o ToString(ix) \o "_" \o tag
             fn == IF op = "min" THEN "minimum" ELSE IF op = "max" THEN "maximum" ELSE op
         IN  support_loop(addConstraint(S, model, zx, nm, fn), model, z, xs, ix + 1, op, tag)

\* core.py:154-176
logical_and(S, xs) ==
    IF Len(xs) = 1 THEN [S EXCEPT !.ret = xs[1]]
    ELSE IF assert_same_problem(S.heap, <<xs>>) # "ok"
    THEN Raise(S, assert_same_problem(S.heap, <<xs>>))
    ELSE IF \E i \in 1..Len(xs) : assert_binary(S.heap[xs[i]]) # "ok"
    THEN Raise(S, "NonBinaryVariableError")
    ELSE LET model == S.heap[xs[Len(xs)]].problem
             S1 == synth_var(S, model)
             tag == S1.tag
             S2 == make_var(S1, model, "(" \o join(S.heap, xs, "_AND_") \o ")_" \o tag,
                            "Binary", Made("logical_and", xs))
             z == S2.ret
             S3 == addConstraint(S2, model,
                       GE(AffineExpression(S2.heap, z),
                          ExprAdd(ExprSub(lpSum(S2.heap, xs), Num(Len(xs))), Num(1))),
                       "logical_and_support_" \o tag, "logical_and")
             S4 == support_loop(S3, model, z, xs, 0, "logical_and", tag)
         IN  [S4 EXCEPT !.ret = IF S4.status = "ok" THEN z ELSE 0]

\* core.py:178-195
logical_or(S, xs) ==
    IF Len(xs) = 1 THEN [S EXCEPT !.ret = xs[1]]
    ELSE IF assert_same_problem(S.heap, <<xs>>) # "ok"
    THEN Raise(S, assert_same_problem(S.heap, <<xs>>))
    ELSE IF \E i \in 1..Len(xs) : assert_binary(S.heap[xs[i]]) # "ok"
    THEN Raise(S, "NonBinaryVariableError")
    ELSE LET model == S.heap[xs[Len(xs)]].problem
             S1 == synth_var(S, model)
             tag == S1.tag
             S2 == make_var(S1, model, "(" \o join(S.heap, xs, "_OR_") \o ")_" \o tag,
                            "Binary", Made("logical_or", xs))
             z == S2.ret
             S3 == addConstraint(S2, model,
                       LE(AffineExpression(S2.heap, z), lpSum(S2.heap, xs)),
                       "logical_or_support_" \o tag, "logical_or")
             S4 == support_loop(S3, model, z, xs, 0, "logical_or", tag)
         IN  [S4 EXCEPT !.ret = IF S4.status = "ok" THEN z ELSE 0]

\* core.py:197-211
logical_xor(S, x, y) ==
    IF assert_same_problem(S.heap, << <<x, y>> >>) # "ok"
    THEN Raise(S, assert_same_problem(S.heap, << <<x, y>> >>))
    ELSE IF assert_binary(S.heap[x]) # "ok" \/ assert_binary(S.heap[y]) # "ok"
    THEN Raise(S, "NonBinaryVariableError")
    ELSE LET model == S.heap[x].problem
             S1 == synth_var(S, model)
             tag == S1.tag
             S2 == make_var(S1, model,
                            "(" \o S.heap[x].name \o " XOR " \o S.heap[y].name \o ")_" \o tag,
                            "Binary", Made("logical_xor", <<x, y>>))
             h == S2.heap
             z == S2.ret
             S3 == addConstraint(S2, model,
                       LE(AffineExpression(h, z), Var_add(h, x, AffineExpression(h, y))),
                       "logical_xor_support_0_" \o tag, "logical_xor")
             S4 == addConstraint(S3, model,
                       GE(AffineExpression(h, z), Var_sub(h, x, AffineExpression(h, y))),
                       "logical_xor_support_1_" \o tag, "logical_xor")
             S5 == addConstraint(S4, model,
                       GE(AffineExpression(h, z), Var_sub(h, y, AffineExpression(h, x))),
                       "logical_xor_support_2_" \o tag, "logical_xor")
             S6 == addConstraint(S5, model,
                       LE(AffineExpression(h, z),
                          ExprSub(Var_rsub(h, x, Num(2)), AffineExpression(h, y))),
                       "logical_xor_support_3_" \o tag, "logical_xor")
         IN  [S6 EXCEPT !.ret = IF S6.status = "ok" THEN z ELSE 0]

\* core.py:213-225
implies(S, x, y) ==
    IF assert_same_problem(S.heap, << <<x, y>> >>) # "ok"
    THEN Raise(S, assert_same_problem(S.heap, << <<x, y>> >>))
    ELSE IF assert_binary(S.heap[x]) # "ok" \/ assert_binary(S.heap[y]) # "ok"
    THEN Raise(S, "NonBinaryVariableError")
    ELSE LET model == S.heap[x].problem
             S1 == synth_var(S, model)
             tag == S1.tag
             S2 == make_var(S1, model,
                            "(" \o S.heap[x].name \o " implies " \o S.heap[y].name \o ")_" \o tag,
                            "Binary", Made("implies", <<x, y>>))
             h == S2.heap
             z == S2.ret
             S3 == addConstraint(S2, model,
                       LE(AffineExpression(h, z),
                          ExprAdd(Var_rsub(h, x, Num(1)), AffineExpression(h, y))),
                       "implies_support_0_" \o tag, "implies")
             S4 == addConstraint(S3, model,
                       GE(AffineExpression(h, z), Var_rsub(h, x, Num(1))),
                       "implies_support_1_" \o tag, "implies")
             S5 == addConstraint(S4, model,
                       GE(AffineExpression(h, z), AffineExpression(h, y)),
                       "implies_support_2_" \o tag, "implies")
         IN  [S5 EXCEPT !.ret = IF S5.status = "ok" THEN z ELSE 0]

\* core.py:228-238 with name=None
minimum(S, xs) ==
    IF Len(xs) = 1 THEN [S EXCEPT !.ret = xs[1]]
    ELSE IF assert_same_problem(S.heap, <<xs>>) # "ok"
    THEN Raise(S, assert_same_problem(S.heap, <<xs>>))
    ELSE LET model == S.heap[xs[1]].problem
             S1 == synth_var(S, model)
             tag == S1.tag
             S2 == make_var(S1, model, "min_" \o tag, "Continuous", Made("minimum", xs))
             m == S2.ret
             S3 == support_loop(S2, model, m, xs, 0, "min", tag)
         IN  [S3 EXCEPT !.ret = IF S3.status = "ok" THEN m ELSE 0]

\* core.py:240-250 with name=None
maximum(S, xs) ==
    IF Len(xs) = 1 THEN [S EXCEPT !.ret = xs[1]]
    ELSE IF assert_same_problem(S.heap, <<xs>>) # "ok"
    THEN Raise(S, assert_same_problem(S.heap, <<xs>>))
    ELSE LET model == S.heap[xs[1]].problem
             S1 == synth_var(S, model)
             tag == S1.tag
             S2 == make_var(S1, model, "max_" \o tag, "Continuous", Made("maximum", xs))
             m == S2.ret
             S3 == support_loop(S2, model, m, xs, 0, "max", tag)
         IN  [S3 EXCEPT !.ret = IF S3.status = "ok" THEN m ELSE 0]

(***************************************************************************)
(* The calls a program makes on Problems and Variables.                    *)
(***************************************************************************)
\* the variables the caller declares: (problem, long name, category)
Decls == {<<1, "x", "Binary">>, <<1, "0", "Continuous">>, <<2, "x", "Binary">>}
DeclsOne == {d \in Decls : d[1] = 1}           \* those of the first Problem
DeclsBin == {d \in Decls : d[3] = "Binary"}    \* one binary variable per Problem
ConNames == {NoneName, "negate_support_0"}     \* names the caller gives constraints
FixVals == {1}                                 \* values the caller fixes a variable at
Ids == {v \in 1..Len(heap) : heap[v].held}     \* the Variables the caller can pass
Lists == {<<a>> : a \in Ids} \cup {<<a, b>> : a \in Ids, b \in Ids}

\* the call ends: everything it wrote is in place, last records how it ended;
\* an object made by a call that raised was never returned to the caller
Commit(S, op, args, e) ==
    /\ Len(S.heap) <= MaxVars
    /\ \A p \in Problems : S.synth_var_ix[p] <= MaxTag
    /\ synth_var_ix' = S.synth_var_ix
    /\ name_mapping' = S.name_mapping
    /\ constraints' = S.constraints
    /\ variables' = S.variables
    /\ heap' = [i \in 1..Len(S.heap) |->
                    IF i > Len(heap) /\ S.status # "ok"
                    THEN [S.heap[i] EXCEPT !.held = FALSE] ELSE S.heap[i]]
    /\ acc' = acc
    /\ last' = [NoCall EXCEPT !.op = op, !.p = S.p, !.args = args, !.status = S.status,
                              !.ret = S.ret, !.warned = S.warned, !.cons = S.cons, !.e = e]

Call_make_var(p, long_name, cat) ==
    Commit(make_var(Start, p, long_name, cat, Made("make_var", <<>>)), "make_var", <<>>, NoExpr)

\* tests.py:223-224: a.setInitialValue(val); a.fixValue()
Call_fixValue(v, val) ==
    /\ v \in Ids
    /\ heap[v].def.op = "make_var"
    /\ Commit([Start EXCEPT !.heap[v].varValue = <<val>>, !.heap[v].lowBound = <<val>>,
                            !.heap[v].upBound = <<val>>],
              "fixValue", <<v>>, NoExpr)

\* p.addConstraint(v == 1, name) for the first variable v declared, on its
\* problem, as in tests.py:29
Call_addConstraint(name) ==
    /\ 1 \in Ids
    /\ LET v == 1
           c == EQ(AffineExpression(heap, v), Num(1))
           p == heap[v].problem
       IN  Commit(addConstraint(Start, p, c, name,
                                IF name = NoneName THEN "unnamed" ELSE "caller"),
                  "addConstraint", <<>>, NoExpr)

VarOpnd(h, v) == [name |-> h[v].name, e |-> AffineExpression(h, v)]
ExprOpnd(e) == [name |-> "None", e |-> e]    \* LpAffineExpression.name is None

Call_abs_value_var(v) ==
    /\ v \in Ids
    /\ Commit(abs_value(Start, VarOpnd(heap, v)), "abs_value", <<v>>, AffineExpression(heap, v))

\* abs(a - b), tests.py:232
Call_abs_value_expr(a, b) ==
    /\ a \in Ids /\ b \in Ids /\ a # b
    /\ LET e == Var_sub(heap, a, AffineExpression(heap, b))
       IN  Commit(abs_value(Start, ExprOpnd(e)), "abs_value", <<>>, e)

Call_negate(x) == x \in Ids /\ Commit(negate(Start, x), "negate", <<x>>, NoExpr)
Call_logical_and(xs) == Commit(logical_and(Start, xs), "logical_and", xs, NoExpr)
Call_logical_or(xs) == Commit(logical_or(Start, xs), "logical_or", xs, NoExpr)
Call_logical_xor(x, y) == Commit(logical_xor(Start, x, y), "logical_xor", <<x, y>>, NoExpr)
Call_implies(x, y) == Commit(implies(Start, x, y), "implies", <<x, y>>, NoExpr)
Call_minimum(xs) == Commit(minimum(Start, xs), "minimum", xs, NoExpr)
Call_maximum(xs) == Commit(maximum(Start, xs), "maximum", xs, NoExpr)

\* one Problem: declarations, constraints, negate and abs_value
Next ==
    \/ \E d \in DeclsOne : Call_make_var(d[1], d[2], d[3])
    \/ \E n \in ConNames : Call_addConstraint(n)
    \/ \E v \in Ids : Call_abs_value_var(v)
    \/ \E a \in Ids, b \in Ids : Call_abs_value_expr(a, b)
    \/ \E x \in Ids : Call_negate(x)

Spec == Init /\ [][Next]_vars

\* two Problems: declarations, fixed values and the Boolean and extremal functions
NextOps ==
    \/ \E d \in Decls : Call_make_var(d[1], d[2], d[3])
    \/ \E v \in Ids, val \in FixVals : Call_fixValue(v, val)
    \/ \E x \in Ids : Call_negate(x)
    \/ \E xs \in Lists : Call_logical_and(xs)
    \/ \E xs \in Lists : Call_logical_or(xs)
    \/ \E x \in Ids, y \in Ids : Call_logical_xor(x, y)
    \/ \E x \in Ids, y \in Ids : Call_implies(x, y)
    \/ \E xs \in Lists : Call_minimum(xs)
    \/ \E xs \in Lists : Call_maximum(xs)

SpecOps == Init /\ [][NextOps]_vars

(***************************************************************************)
(* Arithmetic on Variables and AffineExpressions: acc is the expression    *)
(* the last operator returned (NoExpr: none yet).                          *)
(***************************************************************************)
Scalars == 0..MaxCoef
Others == {AffineExpression(heap, v) : v \in Ids} \cup {Num(k) : k \in Scalars}
             \cup (IF acc = NoExpr THEN {} ELSE {acc})

Small(e) ==
    /\ e.constant \in -MaxCoef..MaxCoef
    /\ \A v \in DOMAIN e.terms : e.terms[v] \in -MaxCoef..MaxCoef

Returns(e, op) ==
    /\ Small(e)
    /\ acc' = e
    /\ last' = [NoCall EXCEPT !.op = op, !.e = e]
    /\ UNCHANGED <<synth_var_ix, name_mapping, constraints, variables, heap>>

Op_Var_neg(v) == Returns(Var_neg(heap, v), "Variable.__neg__")
Op_Var_add(v, o) == Returns(Var_add(heap, v, o), "Variable.__add__")
Op_Var_sub(v, o) == Returns(Var_sub(heap, v, o), "Variable.__sub__")
Op_Var_rsub(v, k) == Returns(Var_rsub(heap, v, Num(k)), "Variable.__rsub__")
Op_Var_mul(v, k) == Returns(Var_mul(heap, v, k), "Variable.__mul__")
Op_Expr_neg == acc # NoExpr /\ Returns(ExprNeg(acc), "AffineExpression.__neg__")
Op_Expr_add(o) == acc # NoExpr /\ Returns(ExprAdd(acc, o), "AffineExpression.__add__")
Op_Expr_sub(o) == acc # NoExpr /\ Returns(ExprSub(acc, o), "AffineExpression.__sub__")
Op_Expr_mul(k) == acc # NoExpr /\ Returns(ExprMul(acc, k), "AffineExpression.__mul__")

NextExpr ==
    \/ \E d \in DeclsBin : Call_make_var(d[1], d[2], d[3])
    \/ \E v \in Ids : Op_Var_neg(v)
    \/ \E v \in Ids, o \in Others : Op_Var_add(v, o)
    \/ \E v \in Ids, o \in Others : Op_Var_sub(v, o)
    \/ \E v \in Ids, k \in Scalars : Op_Var_rsub(v, k)
    \/ \E v \in Ids, k \in Scalars : Op_Var_mul(v, k)
    \/ Op_Expr_neg
    \/ \E o \in Others : Op_Expr_add(o)
    \/ \E o \in Others : Op_Expr_sub(o)
    \/ \E k \in Scalars : Op_Expr_mul(k)

SpecExpr == Init /\ [][NextExpr]_vars

(***************************************************************************)
(* The registry driven directly: create_short_name / remove / lookups.     *)
(***************************************************************************)
RegLongs == {"a", "b", NoneName}
RegShorts == {pre \o Sha1Hex(Repr(l)) : pre \in Prefixes, l \in RegLongs}
RegKeys == RegLongs \cup RegShorts

NM_create_short_name(p, long_name, prefix) ==
    LET r == create_short_name(name_mapping[p], long_name, prefix)
    IN  /\ name_mapping' = [name_mapping EXCEPT ![p] = r.nm]
        /\ last' = [NoCall EXCEPT !.op = "create_short_name", !.p = p,
                                  !.key = long_name, !.prefix = prefix,
                                  !.rets = r.short, !.warned = r.warned]
        /\ UNCHANGED <<synth_var_ix, constraints, variables, heap, acc>>

NM_remove(p, short) ==
    /\ name_mapping' = [name_mapping EXCEPT ![p] = remove(name_mapping[p], short)]
    /\ last' = [NoCall EXCEPT !.op = "remove", !.p = p, !.key = short]
    /\ UNCHANGED <<synth_var_ix, constraints, variables, heap, acc>>

NM_get_short_name(p, key) ==
    LET r == get_short_name(name_mapping[p], key)
    IN  /\ last' = [NoCall EXCEPT !.op = "get_short_name", !.p = p, !.key = key,
                                  !.status = r.status, !.rets = r.rets]
        /\ UNCHANGED <<synth_var_ix, name_mapping, constraints, variables, heap, acc>>

NM_get_long_name(p, key) ==
    LET r == get_long_name(name_mapping[p], key)
    IN  /\ last' = [NoCall EXCEPT !.op = "get_long_name", !.p = p, !.key = key,
                                  !.status = r.status, !.rets = r.rets]
        /\ UNCHANGED <<synth_var_ix, name_mapping, constraints, variables, heap, acc>>

NextNM ==
    \/ \E p \in Problems, l \in RegLongs, pre \in Prefixes : NM_create_short_name(p, l, pre)
    \/ \E p \in Problems, s \in RegShorts : NM_remove(p, s)
    \/ \E p \in Problems, k \in RegKeys : NM_get_short_name(p, k)
    \/ \E p \in Problems, k \in RegKeys : NM_get_long_name(p, k)

SpecNM == Init /\ [][NextNM]_vars

(***************************************************************************)
(* Feasible values.  A value n stands for the number n / Denominator, so   *)
(* that continuous variables can take values between the integers.         *)
(***************************************************************************)
Abs(n) == IF n < 0 THEN -n ELSE n
Min(Q) == CHOOSE m \in Q : \A n \in Q : m <= n

RECURSIVE SumTerms(_, _, _)
SumTerms(t, asg, D) ==
    IF D = {} THEN 0
    ELSE LET v == CHOOSE w \in D : TRUE
         IN  t[v] * asg[v] + SumTerms(t, asg, D \ {v})

\* Denominator times the value of the expression under the assignment
Eval(e, asg) == SumTerms(e.terms, asg, DOMAIN e.terms) + Denominator * e.constant

Holds(c, asg) ==
    CASE c.sense = LpConstraintLE -> Eval(c, asg) <= 0
      [] c.sense = LpConstraintEQ -> Eval(c, asg) = 0
      [] OTHER -> Eval(c, asg) >= 0

\* the values within -B..B a variable may take: its category and its bounds
Values(var, B) ==
    {n \in -B..B :
        /\ var.cat = "Integer" => n % Denominator = 0
        /\ var.lowBound # <<>> => n >= Denominator * var.lowBound[1]
        /\ var.upBound # <<>> => n <= Denominator * var.upBound[1]}

Span == MaxAbs * Denominator
One == Denominator          \* the number 1
CallCons == IF last.p = 0 THEN {} ELSE {constraints[last.p][n] : n \in last.cons}

(***************************************************************************)
(* C1 -- for AND, OR, XOR and IMPLIES on two binary operands of one        *)
(* Problem (possibly the same variable) the call succeeds and, for each of *)
(* the four 0/1 assignments, the constraints it registers leave exactly    *)
(* the truth-table value feasible for the auxiliary variable.              *)
(***************************************************************************)
BoolBin == {"logical_and", "logical_or", "logical_xor", "implies"}
TruthTable(op, a, b) ==
    CASE op = "logical_and" -> IF a = 1 /\ b = 1 THEN 1 ELSE 0
      [] op = "logical_or" -> IF a = 1 \/ b = 1 THEN 1 ELSE 0
      [] op = "logical_xor" -> IF a # b THEN 1 ELSE 0
      [] OTHER -> IF a = 1 /\ b = 0 THEN 0 ELSE 1

C1_TruthTables ==
    (/\ last.op \in BoolBin
     /\ Len(last.args) = 2
     /\ \A i \in 1..2 : isBinary(heap[last.args[i]])
     /\ heap[last.args[1]].problem = heap[last.args[2]].problem)
    => /\ last.status = "ok"
       /\ LET x == last.args[1]
              y == last.args[2]
              z == last.ret
          IN  \A a \in {0, 1}, b \in {0, 1} :
                 (x = y => a = b) =>
                    {zv \in Values(heap[z], Span) :
                        \A c \in CallCons :
                           Holds(c, (z :> zv) @@ (x :> a * One) @@ (y :> b * One))}
                    = {One * TruthTable(last.op, a, b)}

(***************************************************************************)
(* C2 -- logical_and, logical_or, logical_xor, implies, minimum and        *)
(* maximum called with two or more operands that are not all of the same   *)
(* Problem fail with the CitrusError of assert_same_problem.               *)
(***************************************************************************)
SameProblemFns == BoolBin \cup {"minimum", "maximum"}

C2_CrossContextRaisesCitrusError ==
    (/\ last.op \in SameProblemFns
     /\ Len(last.args) >= 2
     /\ \E i, j \in 1..Len(last.args) :
           heap[last.args[i]].problem # heap[last.args[j]].problem)
    => last.status = "CitrusError"

(***************************************************************************)
(* C3 -- a Boolean synthesis function that checks its operands (negate,    *)
(* and the others called with two or more operands of one Problem) raises  *)
(* NonBinaryVariableError when some operand is neither binary nor a        *)
(* constant fixed at 0 or 1, and does not raise it when every operand is   *)
(* binary or such a constant.  (With a single operand logical_and and      *)
(* logical_or return it unchecked, core.py:161-162 and 180-181.)           *)
(***************************************************************************)
BoolFns == BoolBin \cup {"negate"}
BinaryValued(var) ==
    \/ isBinary(var)
    \/ isConstant(var) /\ value(var) \in {<<0>>, <<1>>}

C3_NonBinaryOperandRaises ==
    (/\ last.op \in BoolFns
     /\ last.op = "negate" \/ Len(last.args) >= 2
     /\ \A i, j \in 1..Len(last.args) :
           heap[last.args[i]].problem = heap[last.args[j]].problem)
    => ((last.status = "NonBinaryVariableError")
            <=> (\E i \in 1..Len(last.args) : ~BinaryValued(heap[last.args[i]])))

(***************************************************************************)
(* C4 -- a synthesis function call that fails leaves the synthesis         *)
(* counter, the registry, the registered variables and the registered      *)
(* constraints of every Problem as they were before the call.              *)
(***************************************************************************)
SynthFns == BoolFns \cup {"minimum", "maximum"}

C4_FailedCallChangesNothing ==
    [][(last'.op \in SynthFns /\ last'.status # "ok") => ctx' = ctx]_vars

(***************************************************************************)
(* C5 -- every auxiliary variable and every constraint made by a synthesis *)
(* function or by an unnamed addConstraint has a short name different from *)
(* that of every other variable and constraint of its Problem.             *)
(***************************************************************************)
VarsOf(p) == {v \in Ids : heap[v].problem = p}

C5_NoNameCollision ==
    \A p \in Problems :
       /\ \A n \in DOMAIN constraints[p], v \in VarsOf(p) :
             (constraints[p][n].origin # "caller" \/ heap[v].def.op # "make_var")
                => heap[v].name # n
       /\ \A v \in VarsOf(p), w \in VarsOf(p) :
             (v # w /\ heap[v].def.op # "make_var") => heap[v].name # heap[w].name

(***************************************************************************)
(* C6 -- negate(x) on a binary x creates one auxiliary binary variable y   *)
(* and one constraint, under which y = 1 - x is the only feasible value    *)
(* for x = 0 and for x = 1; so in NOT(NOT(x)) the result has the value of  *)
(* x in every feasible assignment.                                         *)
(***************************************************************************)
NegatePins ==
    LET x == last.args[1]
        y == last.ret
        p == heap[x].problem
    IN  /\ y = Len(heap)
        /\ isBinary(heap[y])
        /\ heap[y].problem = p
        /\ Cardinality(last.cons) = 1
        /\ \A xv \in Values(heap[x], Span) :
              {yv \in Values(heap[y], Span) :
                  \A c \in CallCons : Holds(c, (x :> xv) @@ (y :> yv))} = {One - xv}
        /\ heap[x].def.op = "negate" =>
              LET x0 == heap[x].def.args[1]
                  chain == CallCons \cup
                           {c \in Range(constraints[p]) :
                               c.origin = "negate" /\ DOMAIN c.terms = {x0, x}}
              IN  \A v0 \in Values(heap[x0], Span) :
                     {q \in Values(heap[x], Span) \X Values(heap[y], Span) :
                         \A c \in chain :
                            Holds(c, (x0 :> v0) @@ (x :> q[1]) @@ (y :> q[2]))}
                     = {<<One - v0, v0>>}

C6_NegateIsComplement ==
    [][(last'.op = "negate" /\ last'.status = "ok")
          => (Len(heap') = Len(heap) + 1 /\ NegatePins')]_vars

C6_Witness ==
    /\ last.op = "negate" /\ last.status = "ok"
    /\ heap[last.args[1]].def.op = "negate"

(***************************************************************************)
(* C7 -- abs_value(e) creates exactly one auxiliary variable z and exactly *)
(* two constraints and consumes one synthesis tag; for every value of e    *)
(* the feasible values of z, an integer variable, are exactly the integers *)
(* z >= |e|.  As amended: the least feasible z is the least integer        *)
(* >= |e|, which is |e| exactly when |e| is an integer.  As claimed: the   *)
(* least feasible z is |e| for every value of e.                           *)
(***************************************************************************)
AbsCall == last.op = "abs_value" /\ last.status = "ok"

\* the assignments of the operand's variables
AbsAsgs ==
    LET vs == DOMAIN last.e.terms
    IN  {a \in [vs -> -Span..Span] : \A v \in vs : a[v] \in Values(heap[v], Span)}

\* a range that holds |e| and the next integer for every assignment
AbsSpan ==
    LET t == last.e.terms
    IN  SumTerms(t, [v \in DOMAIN t |-> IF t[v] < 0 THEN -1 ELSE 1], DOMAIN t) * Span
           + Denominator * (Abs(last.e.constant) + 1)

\* least: whether the least feasible z is held to be the least integer >= |e|
\* ("ceiling") or |e| itself ("abs")
AbsRegisters(least) ==
    LET z == last.ret
        cs == CallCons
        zs == Values(heap[z], AbsSpan)
    IN  /\ z = Len(heap)
        /\ heap[z].def.op = "abs_value"
        /\ Cardinality(last.cons) = 2
        /\ \A a \in AbsAsgs :
              LET m == Abs(Eval(last.e, a))
                  F == {zv \in zs : \A c \in cs : Holds(c, a @@ (z :> zv))}
              IN  /\ F = {zv \in zs : zv >= m}
                  /\ IF least = "ceiling"
                     THEN /\ Min(F) = ((m + Denominator - 1) \div Denominator) * Denominator
                          /\ (Min(F) = m) <=> (m % Denominator = 0)
                     ELSE Min(F) = m

AbsStep ==
    (last'.op = "abs_value" /\ last'.status = "ok")
    => /\ Len(heap') = Len(heap) + 1
       /\ \A p \in Problems :
             LET d == IF p = last'.p THEN 1 ELSE 0
             IN  /\ synth_var_ix'[p] = synth_var_ix[p] + d
                 /\ Cardinality(DOMAIN constraints'[p])
                       = Cardinality(DOMAIN constraints[p]) + 2 * d

C8_ExpressionInOneProblem ==
    acc # NoExpr =>
       /\ acc.problem \in Problems
       /\ \A v \in DOMAIN acc.terms : heap[v].problem = acc.problem

(***************************************************************************)
(* C9 -- while long name L is registered under short name S,               *)
(* get_short_name(L) returns S and get_long_name(S) returns L; a lookup    *)
(* of a key that is not registered fails with a not-found error.           *)
(***************************************************************************)
C9_LookupsFollowTheirNames ==
    LET nm == name_mapping[last.p]
    IN  /\ last.op = "get_short_name" =>
              IF last.key \in DOMAIN nm.long_to_short
              THEN last.status = "ok" /\ last.rets = nm.long_to_short[last.key]
              ELSE last.status = "KeyError"
        /\ last.op = "get_long_name" =>
              IF last.key \in DOMAIN nm.short_to_long
              THEN last.status = "ok" /\ last.rets = nm.short_to_long[last.key]
              ELSE last.status = "KeyError"

(***************************************************************************)
(* C10 -- after any sequence of create_short_name and remove calls the two *)
(* maps are inverses of each other, and create_short_name on a registered  *)
(* long name returns the short name issued before, warns, and leaves both  *)
(* maps unchanged.                                                         *)
(***************************************************************************)
Bijection(nm) ==
    /\ \A l \in DOMAIN nm.long_to_short :
          /\ nm.long_to_short[l] \in DOMAIN nm.short_to_long
          /\ nm.short_to_long[nm.long_to_short[l]] = l
    /\ \A t \in DOMAIN nm.short_to_long :
          /\ nm.short_to_long[t] \in DOMAIN nm.long_to_short
          /\ nm.long_to_short[nm.short_to_long[t]] = t

ReRegistration ==
    (/\ last'.op = "create_short_name"
     /\ last'.key \in DOMAIN name_mapping[last'.p].long_to_short)
    => /\ last'.rets = name_mapping[last'.p].long_to_short[last'.key]
       /\ last'.warned
       /\ name_mapping' = name_mapping

C10_RegistryIsBijection ==
    /\ [](\A p \in Problems : Bijection(name_mapping[p]))
    /\ [][ReRegistration]_vars

C10_Witness ==
    /\ last.op = "create_short_name" /\ last.warned
    /\ last.rets = ConPrefix \o Sha1Hex(Repr(last.key)) /\ last.prefix = VarPrefix
    /\ \E p \in Problems : Cardinality(DOMAIN name_mapping[p].long_to_short) = 1

====
